---------------------------- MODULE Spec2Model ----------------------------
(***************************************************************************)
(* Model of src/script.js: the sales-summary single page application.      *)
(*                                                                         *)
(* Text is modelled as a sequence of one-character strings, so that the    *)
(* parser, trim(), toLowerCase() and the numeric coercion are computed     *)
(* character by character as the code computes them.                       *)
(***************************************************************************)
EXTENDS Integers, Sequences, FiniteSets, TLC

VARIABLES
    input,            \* argument handed to the pure parsing functions
    output,           \* their result
    op,               \* which function produced output
    pc,               \* position of init(): "start", "loaded" or "failed"
    responses,        \* init: how the fetches behind csvRes and ratesRes ended
    csvText,          \* init: csvText (body of data.csv)
    parsed,           \* init: parsed = parseCSV(csvText)
    rawRows,          \* let rawRows
    rates,            \* let rates
    selectedRegion,   \* let selectedRegion
    selectedCurrency, \* let selectedCurrency
    regionSelect,     \* the #region-filter element: its options and value
    currencyPicker,   \* the #currency-picker element: its options and value
    status,           \* the #status element: message type last set
    statusLog,        \* every setStatus call made so far, in order
    view,             \* what render() last wrote to the page
    lastEvent         \* the event handler that ran last

vars == <<input, output, op, pc, responses, csvText, parsed, rawRows, rates,
          selectedRegion, selectedCurrency, regionSelect, currencyPicker,
          status, statusLog, view, lastEvent>>

parseVars == <<input, output, op>>

appVars == <<pc, responses, csvText, parsed, rawRows, rates, selectedRegion,
             selectedCurrency, regionSelect, currencyPicker, status,
             statusLog, view, lastEvent>>

-----------------------------------------------------------------------------
(* Characters and strings *)

QUOTE == "\""
COMMA == ","
NL == "\n"
CR == "\r"

\* Longest text, in characters, enumerated exhaustively for the parser.
MaxTextLen == 4

\* Longest field, and most fields, of the lines built by quoting.
MaxFieldLen == 2
MaxFields == 2

SeqsUpTo(S, n) == UNION {[1..k -> S] : k \in 0..n}

RECURSIVE Str(_)
\* A character sequence as a string, for readable expected values.
Str(cs) == IF cs = <<>> THEN "" ELSE Head(cs) \o Str(Tail(cs))

StrEach(css) == [i \in 1..Len(css) |-> Str(css[i])]

RECURSIVE JoinWith(_, _)
JoinWith(css, sep) ==
    IF css = <<>> THEN <<>>
    ELSE IF Len(css) = 1 THEN css[1]
    ELSE css[1] \o <<sep>> \o JoinWith(Tail(css), sep)

Contains(cs, ch) == \E i \in 1..Len(cs) : cs[i] = ch

\* String.prototype.trim's white space, as far as the model's texts use it.
IsSpace(ch) == ch \in {" ", "\t", NL, CR}

RECURSIVE TrimLeft(_)
TrimLeft(cs) ==
    IF cs # <<>> /\ IsSpace(Head(cs)) THEN TrimLeft(Tail(cs)) ELSE cs

RECURSIVE TrimRight(_)
TrimRight(cs) ==
    IF cs # <<>> /\ IsSpace(cs[Len(cs)])
    THEN TrimRight(SubSeq(cs, 1, Len(cs) - 1))
    ELSE cs

trim(cs) == TrimRight(TrimLeft(cs))

UpperLetters == <<"A","B","C","D","E","F","G","H","I","J","K","L","M",
                  "N","O","P","Q","R","S","T","U","V","W","X","Y","Z">>
LowerLetters == <<"a","b","c","d","e","f","g","h","i","j","k","l","m",
                  "n","o","p","q","r","s","t","u","v","w","x","y","z">>

LowerOf ==
    [ch \in {UpperLetters[i] : i \in 1..Len(UpperLetters)} |->
        LowerLetters[CHOOSE i \in 1..Len(UpperLetters) : UpperLetters[i] = ch]]

LowerChar(ch) == IF ch \in DOMAIN LowerOf THEN LowerOf[ch] ELSE ch

toLowerCase(cs) == [i \in 1..Len(cs) |-> LowerChar(cs[i])]

-----------------------------------------------------------------------------
(* parseCSV: text.replace(/\r\n?/g, "\n").split("\n") *)

RECURSIVE NormalizeNewlines(_)
NormalizeNewlines(cs) ==
    IF cs = <<>> THEN <<>>
    ELSE IF Head(cs) = CR
         THEN IF Len(cs) >= 2 /\ cs[2] = NL
              THEN <<NL>> \o NormalizeNewlines(Tail(Tail(cs)))
              ELSE <<NL>> \o NormalizeNewlines(Tail(cs))
         ELSE <<Head(cs)>> \o NormalizeNewlines(Tail(cs))

RECURSIVE SplitAcc(_, _, _)
SplitAcc(cs, sep, cur) ==
    IF cs = <<>> THEN <<cur>>
    ELSE IF Head(cs) = sep
         THEN <<cur>> \o SplitAcc(Tail(cs), sep, <<>>)
         ELSE SplitAcc(Tail(cs), sep, Append(cur, Head(cs)))

SplitLines(text) == SplitAcc(NormalizeNewlines(text), NL, <<>>)

(* parseLine: the loop over line[i], with its fields, cur and inQuotes.   *)
(* line[i + 1] past the end is undefined, which is not a quote.            *)
RECURSIVE ScanLine(_, _, _, _, _)
ScanLine(line, i, fields, cur, inQuotes) ==
    IF i > Len(line) THEN Append(fields, cur)
    ELSE LET ch == line[i] IN
         IF inQuotes
         THEN IF ch = QUOTE
              THEN IF i + 1 <= Len(line) /\ line[i + 1] = QUOTE
                   THEN ScanLine(line, i + 2, fields, Append(cur, QUOTE), TRUE)
                   ELSE ScanLine(line, i + 1, fields, cur, FALSE)
              ELSE ScanLine(line, i + 1, fields, Append(cur, ch), TRUE)
         ELSE IF ch = COMMA
              THEN ScanLine(line, i + 1, Append(fields, cur), <<>>, FALSE)
              ELSE IF ch = QUOTE
                   THEN ScanLine(line, i + 1, fields, cur, TRUE)
                   ELSE ScanLine(line, i + 1, fields, Append(cur, ch), FALSE)

RECURSIVE ScanLineNoEscape(_, _, _, _, _)
\* parseLine without the escaped-quote branch: every quote toggles the mode.
ScanLineNoEscape(line, i, fields, cur, inQuotes) ==
    IF i > Len(line) THEN Append(fields, cur)
    ELSE LET ch == line[i] IN
         IF ch = QUOTE
         THEN ScanLineNoEscape(line, i + 1, fields, cur, ~inQuotes)
         ELSE IF ch = COMMA /\ ~inQuotes
              THEN ScanLineNoEscape(line, i + 1, Append(fields, cur), <<>>, FALSE)
              ELSE ScanLineNoEscape(line, i + 1, fields, Append(cur, ch), inQuotes)

parseLineNoEscape(line) == ScanLineNoEscape(line, 1, <<>>, <<>>, FALSE)

parseLine(line) == ScanLine(line, 1, <<>>, <<>>, FALSE)


(* The object literal obj = {} of a data row: its own keys in insertion    *)
(* order, each with its value.  Assigning to a key the object already has  *)
(* overwrites the value and keeps the key's place.  (Keys that are array   *)
(* indices, which JavaScript enumerates first, are not among the headers   *)
(* the model draws.)                                                       *)
HasKey(obj, k) == \E n \in 1..Len(obj) : obj[n].k = k

ObjSet(obj, k, v) ==
    IF HasKey(obj, k)
    THEN [n \in 1..Len(obj) |-> IF obj[n].k = k THEN [k |-> k, v |-> v] ELSE obj[n]]
    ELSE Append(obj, [k |-> k, v |-> v])

\* obj[k] as an option: <<>> for undefined, <<value>> otherwise.
ObjGet(obj, k) ==
    IF HasKey(obj, k)
    THEN <<obj[CHOOSE n \in 1..Len(obj) : obj[n].k = k].v>>
    ELSE <<>>

RECURSIVE ZipRow(_, _, _, _)
\* for (j = 0; j < headers.length; j++) obj[headers[j]] = cols[j] != null ? cols[j] : ""
ZipRow(headers, cols, j, obj) ==
    IF j > Len(headers) THEN obj
    ELSE ZipRow(headers, cols, j + 1,
                ObjSet(obj, headers[j], IF j <= Len(cols) THEN cols[j] ELSE <<>>))

RECURSIVE FirstNonBlank(_, _)
\* while (headerLineIndex < lines.length && lines[headerLineIndex].trim() === "") headerLineIndex++
FirstNonBlank(lines, h) ==
    IF h <= Len(lines) /\ trim(lines[h]) = <<>> THEN FirstNonBlank(lines, h + 1) ELSE h

RECURSIVE DataRows(_, _, _)
\* the loop over the lines after the header line
DataRows(lines, headers, i) ==
    IF i > Len(lines) THEN <<>>
    ELSE IF lines[i] = <<>> \/ trim(lines[i]) = <<>>
         THEN DataRows(lines, headers, i + 1)
         ELSE <<ZipRow(headers, parseLine(lines[i]), 1, <<>>)>>
              \o DataRows(lines, headers, i + 1)

EmptyParse == [headers |-> <<>>, rows |-> <<>>]

parseCSV(text) ==
    LET lines == SplitLines(text)
        h == FirstNonBlank(lines, 1)
    IN  IF Len(lines) = 0 THEN EmptyParse
        ELSE IF h > Len(lines) THEN EmptyParse
        ELSE LET parsedHeader == parseLine(lines[h])
                 headers == [j \in 1..Len(parsedHeader) |-> trim(parsedHeader[j])]
             IN  [headers |-> headers, rows |-> DataRows(lines, headers, h + 1)]

-----------------------------------------------------------------------------
(* The parsing functions applied to bounded inputs *)

ParseChars == {"a", COMMA, QUOTE, NL, " "}

FieldChars == {"a", COMMA, QUOTE}

RECURSIVE DoubleQuotes(_)
DoubleQuotes(cs) ==
    IF cs = <<>> THEN <<>>
    ELSE (IF Head(cs) = QUOTE THEN <<QUOTE, QUOTE>> ELSE <<Head(cs)>>)
         \o DoubleQuotes(Tail(cs))

\* A field written the CSV way: in quotes, its own quotes doubled.
QuoteField(cs) == <<QUOTE>> \o DoubleQuotes(cs) \o <<QUOTE>>

EncodeQuoted(fs) == JoinWith([i \in 1..Len(fs) |-> QuoteField(fs[i])], COMMA)

FieldLists == SeqsUpTo(SeqsUpTo(FieldChars, MaxFieldLen), MaxFields) \ {<<>>}

AcmeLine ==
    <<QUOTE, "A", "c", "m", "e", ",", " ", "I", "n", "c", ".", QUOTE, ",",
      "N", "o", "r", "t", "h", ",", "1", "0", "0">>

SheSaidLine ==
    <<QUOTE, "S", "h", "e", " ", "s", "a", "i", "d", " ", QUOTE, QUOTE,
      "h", "i", QUOTE, QUOTE, QUOTE, ",", "E", "a", "s", "t", ",", "5", "0">>

ParseInputs ==
    SeqsUpTo(ParseChars, MaxTextLen)
      \cup {EncodeQuoted(fs) : fs \in FieldLists}
      \cup {AcmeLine, SheSaidLine}

IsLine(cs) == ~Contains(cs, NL) /\ ~Contains(cs, CR)

-----------------------------------------------------------------------------
(* coerceRow *)

S_product == <<"p", "r", "o", "d", "u", "c", "t">>
S_item == <<"i", "t", "e", "m">>
S_name == <<"n", "a", "m", "e">>
S_region == <<"r", "e", "g", "i", "o", "n">>
S_area == <<"a", "r", "e", "a">>
S_sales == <<"s", "a", "l", "e", "s">>
S_amount == <<"a", "m", "o", "u", "n", "t">>
S_total == <<"t", "o", "t", "a", "l">>
S_Unknown == <<"U", "n", "k", "n", "o", "w", "n">>
S_all == <<"a", "l", "l">>

Digits == <<"0", "1", "2", "3", "4", "5", "6", "7", "8", "9">>

ValueOfDigit ==
    [ch \in {Digits[d] : d \in 1..Len(Digits)} |->
        (CHOOSE d \in 1..Len(Digits) : Digits[d] = ch) - 1]

IsDigit(ch) == ch \in DOMAIN ValueOfDigit

DigitVal(ch) == ValueOfDigit[ch]

\* String(rawSales).replace(/[^0-9.\-]/g, "")
StripNonNumeric(cs) == SelectSeq(cs, LAMBDA ch : IsDigit(ch) \/ ch \in {".", "-"})

RECURSIVE DigitRun(_, _)
\* the index after the run of digits that starts at i
DigitRun(cs, i) == IF i <= Len(cs) /\ IsDigit(cs[i]) THEN DigitRun(cs, i + 1) ELSE i

RECURSIVE Decimal(_, _, _)
\* the value of the digits cs[i..j-1]
Decimal(cs, i, j) ==
    IF j <= i THEN 0 ELSE Decimal(cs, i, j - 1) * 10 + DigitVal(cs[j - 1])

NaN == [k |-> "nan", n |-> 0]
Infinite == [k |-> "inf", n |-> 0]
Finite(n) == [k |-> "fin", n |-> n]

(* parseFloat on a string of digits, dots and minus signs: an optional     *)
(* sign, then the longest prefix digits[.digits] or .digits; NaN when it   *)
(* holds no digit.  A number is held in hundredths; the texts of the model *)
(* carry at most two fractional digits, so nothing is rounded.             *)
parseFloat(cs) ==
    LET neg == cs # <<>> /\ cs[1] = "-"
        a == IF neg THEN 2 ELSE 1
        b == DigitRun(cs, a)
        dot == b <= Len(cs) /\ cs[b] = "."
        c == IF dot THEN DigitRun(cs, b + 1) ELSE b
        fracLen == IF dot THEN c - (b + 1) ELSE 0
        whole == Decimal(cs, a, b)
        frac == IF fracLen = 0 THEN 0
                ELSE IF fracLen = 1 THEN 10 * DigitVal(cs[b + 1])
                ELSE 10 * DigitVal(cs[b + 1]) + DigitVal(cs[b + 2])
        mag == whole * 100 + frac
    IN  IF b = a /\ fracLen = 0 THEN NaN
        ELSE Finite(IF neg THEN 0 - mag ELSE mag)

\* map = {}; for (const k of Object.keys(row)) map[k.toLowerCase()] = row[k]
RECURSIVE LowerKeys(_, _, _)
LowerKeys(row, n, map) ==
    IF n > Len(row) THEN map
    ELSE LowerKeys(row, n + 1, ObjSet(map, toLowerCase(row[n].k), row[n].v))

\* a || b, for a an own property read (an option) and b a string
OrElse(a, b) == IF a # <<>> /\ a[1] # <<>> THEN a[1] ELSE b

\* a ?? b
Coalesce(a, b) == IF a # <<>> THEN a[1] ELSE b

coerceRowNoAlias(row) ==
    LET map == LowerKeys(row, 1, <<>>)
        rawSales == Coalesce(ObjGet(map, S_sales), <<"0">>)
        f == parseFloat(StripNonNumeric(rawSales))
    IN  [product |-> OrElse(ObjGet(map, S_product), S_Unknown),
         region |-> OrElse(ObjGet(map, S_region), <<>>),
         sales |-> IF f.k = "fin" THEN f.n ELSE 0]

(* Every cell is a string, so typeof rawSales === "number" is never true;  *)
(* parseFloat(...) || 0 turns NaN and 0 into 0.                            *)
coerceRow(row) ==
    LET map == LowerKeys(row, 1, <<>>)
        product == OrElse(ObjGet(map, S_product),
                     OrElse(ObjGet(map, S_item),
                       OrElse(ObjGet(map, S_name), S_Unknown)))
        region == OrElse(ObjGet(map, S_region), OrElse(ObjGet(map, S_area), <<>>))
        rawSales == Coalesce(ObjGet(map, S_sales),
                      Coalesce(ObjGet(map, S_amount),
                        Coalesce(ObjGet(map, S_total), <<"0">>)))
        f == parseFloat(StripNonNumeric(rawSales))
    IN  [product |-> product, region |-> region,
         sales |-> IF f.k = "fin" THEN f.n ELSE 0]

-----------------------------------------------------------------------------
(* rates.json and getRate *)

\* JSON values a rate may hold: a number, a number too large for a double
\* (read as Infinity), null, or a string that is no number.
JNum(n) == [t |-> "num", n |-> n]
JHuge == [t |-> "huge", n |-> 0]
JNull == [t |-> "null", n |-> 0]
JText == [t |-> "text", n |-> 0]

\* Number(rates[code])
NumberOf(v) ==
    CASE v.t = "num" -> Finite(v.n)
      [] v.t = "huge" -> Infinite
      [] v.t = "null" -> Finite(0)
      [] OTHER -> NaN

getRateNoCheck(table, code) ==
    LET r == IF HasKey(table, code) THEN NumberOf(ObjGet(table, code)[1]) ELSE NaN
    IN  IF r.k = "fin" THEN r.n ELSE 1

getRate(table, code) ==
    LET r == IF HasKey(table, code) THEN NumberOf(ObjGet(table, code)[1]) ELSE NaN
    IN  IF r.k = "fin" /\ r.n > 0 THEN r.n ELSE 1

-----------------------------------------------------------------------------
(* Sorting with (a, b) => a.localeCompare(b) *)

\* The collation order of the characters the model's names use; names are
\* compared character by character in it.
CollationOrder ==
    <<" ", "-", ",", ".", QUOTE, "$", "0", "1", "2", "3", "4", "5", "6", "7",
      "8", "9", "a", "A", "b", "B", "c", "C", "d", "D", "e", "E", "f", "F",
      "g", "G", "h", "H", "i", "I", "j", "J", "k", "K", "l", "L", "m", "M",
      "n", "N", "o", "O", "p", "P", "q", "Q", "r", "R", "s", "S", "t", "T",
      "u", "U", "v", "V", "w", "W", "x", "X", "y", "Y", "z", "Z">>

RankOf ==
    [ch \in {CollationOrder[n] : n \in 1..Len(CollationOrder)} |->
        CHOOSE n \in 1..Len(CollationOrder) : CollationOrder[n] = ch]

Rank(ch) == IF ch \in DOMAIN RankOf THEN RankOf[ch] ELSE 0

RECURSIVE Before(_, _)
\* a.localeCompare(b) < 0
Before(a, b) ==
    IF b = <<>> THEN FALSE
    ELSE IF a = <<>> THEN TRUE
    ELSE IF Rank(Head(a)) # Rank(Head(b)) THEN Rank(Head(a)) < Rank(Head(b))
    ELSE Before(Tail(a), Tail(b))

RECURSIVE InsertSorted(_, _)
InsertSorted(sorted, x) ==
    IF sorted = <<>> THEN <<x>>
    ELSE IF Before(x, Head(sorted)) THEN <<x>> \o sorted
    ELSE <<Head(sorted)>> \o InsertSorted(Tail(sorted), x)

RECURSIVE SortNames(_)
SortNames(names) ==
    IF names = <<>> THEN <<>>
    ELSE InsertSorted(SortNames(SubSeq(names, 1, Len(names) - 1)), names[Len(names)])

RECURSIVE Distinct(_)
\* Array.from(new Set(xs)): first occurrences, in order
Distinct(xs) ==
    IF xs = <<>> THEN <<>>
    ELSE LET init == Distinct(SubSeq(xs, 1, Len(xs) - 1))
             x == xs[Len(xs)]
         IN  IF \E n \in 1..Len(init) : init[n] = x THEN init ELSE Append(init, x)

-----------------------------------------------------------------------------
(* buildRegionFilter, buildCurrencyPicker, getFilteredRows, render *)

\* The option values of #region-filter: "" (All Regions), then the regions.
regionOptions(rows) ==
    LET regs == SelectSeq([n \in 1..Len(rows) |-> rows[n].region], LAMBDA r : r # <<>>)
    IN  <<<<>>>> \o SortNames(Distinct(regs))

\* selectedRegion = select.value || "all"
regionOfValue(v) == IF v # <<>> THEN v ELSE S_all

\* The option values of #currency-picker: the codes of rates, in order.
currencyOptions(table) == [n \in 1..Len(table) |-> table[n].k]

\* picker.value after the options are built and the default is chosen; a
\* select without options has the value "".
defaultCurrency(table) ==
    IF HasKey(table, "INR") THEN "INR"
    ELSE IF Len(table) > 0 THEN table[1].k
    ELSE ""

getFilteredRowsIgnoringFilter(rows, region) == rows

getFilteredRows(rows, region) ==
    IF region = S_all THEN rows
    ELSE SelectSeq(rows, LAMBDA r : r.region = region)

RECURSIVE SumSales(_)
\* filtered.reduce((acc, r) => acc + r.sales, 0)
SumSales(rows) ==
    IF rows = <<>> THEN 0
    ELSE SumSales(SubSeq(rows, 1, Len(rows) - 1)) + rows[Len(rows)].sales

RECURSIVE groupOverwriting(_)
\* the grouping with byProduct.set(key, r.sales): the last record wins
groupOverwriting(rows) ==
    IF rows = <<>> THEN <<>>
    ELSE LET m == groupOverwriting(SubSeq(rows, 1, Len(rows) - 1))
             r == rows[Len(rows)]
             key == IF r.product # <<>> THEN r.product ELSE S_Unknown
         IN  ObjSet(m, key, r.sales)

RECURSIVE groupByProduct(_)
\* byProduct: a Map from r.product || "Unknown" to the sum of r.sales
groupByProduct(rows) ==
    IF rows = <<>> THEN <<>>
    ELSE LET m == groupByProduct(SubSeq(rows, 1, Len(rows) - 1))
             r == rows[Len(rows)]
             key == IF r.product # <<>> THEN r.product ELSE S_Unknown
             old == IF HasKey(m, key) THEN ObjGet(m, key)[1] ELSE 0
         IN  ObjSet(m, key, old + r.sales)

(* What render() writes: #total-sales (total, data-region), #total-currency *)
(* and the rows of #product-sales.  totalRaw, rate and each row's raw are   *)
(* render's locals totalRaw, rate and byProduct.get(p); total and shown are *)
(* the numbers handed to the formatters.                                    *)
render(rows, region, currency, table) ==
    LET rate == getRate(table, currency)
        filtered == getFilteredRows(rows, region)
        totalRaw == SumSales(filtered)
        byProduct == groupByProduct(filtered)
        products == SortNames([n \in 1..Len(byProduct) |-> byProduct[n].k])
    IN  [rendered |-> TRUE,
         totalRaw |-> totalRaw,
         rate |-> rate,
         total |-> totalRaw * rate,
         dataRegion |-> IF region = S_all THEN S_all ELSE region,
         currency |-> currency,
         table |-> [n \in 1..Len(products) |->
                      [name |-> products[n],
                       raw |-> ObjGet(byProduct, products[n])[1],
                       shown |-> ObjGet(byProduct, products[n])[1] * rate]]]

BlankView ==
    [rendered |-> FALSE, totalRaw |-> 0, rate |-> 1, total |-> 0,
     dataRegion |-> <<>>, currency |-> "", table |-> <<>>]

-----------------------------------------------------------------------------
(* What data.csv and rates.json may hold *)

\* Most data lines after the header line of a generated data.csv.
MaxDataLines == 2

HeaderCanonical ==
    <<"p", "r", "o", "d", "u", "c", "t", ",", "r", "e", "g", "i", "o", "n",
      ",", "s", "a", "l", "e", "s">>
HeaderAliases ==
    <<"N", "a", "m", "e", ",", "A", "r", "e", "a", ",", "T", "o", "t", "a",
      "l">>
HeaderProductItem ==
    <<"p", "r", "o", "d", "u", "c", "t", ",", "i", "t", "e", "m", ",", "s",
      "a", "l", "e", "s">>
HeaderRegionArea ==
    <<"r", "e", "g", "i", "o", "n", ",", "a", "r", "e", "a", ",", "a", "m",
      "o", "u", "n", "t">>
HeaderRepeated ==
    <<"N", "a", "m", "e", ",", "n", "a", "m", "e", ",", "S", "A", "L", "E", "S">>

HeaderLines ==
    {HeaderCanonical, HeaderAliases, HeaderProductItem, HeaderRegionArea,
     HeaderRepeated}

LineNorth ==
    <<"A", ",", "N", "o", "r", "t", "h", ",", "1", "0", "0">>
LineSouth ==
    <<"B", ",", "S", "o", "u", "t", "h", ",", "5", "0">>
LineAll ==
    <<",", "a", "l", "l", ",", "7">>
LineCommas ==
    <<",", ",">>
LineBlank ==
    <<" ", " ">>
LineQuoted ==
    <<QUOTE, "A", QUOTE, ",", "S", "o", "u", "t", "h", ",", "$", "2", ".",
      "5", "x">>

DataLines == {LineNorth, LineSouth, LineAll, LineCommas, LineBlank, LineQuoted}

TextEmpty ==
    <<>>
TextBlank ==
    <<" ", NL, NL>>
TextCrLf ==
    <<CR, NL, "p", "r", "o", "d", "u", "c", "t", ",", "r", "e", "g", "i",
      "o", "n", ",", "s", "a", "l", "e", "s", CR, NL, "A", ",", "N", "o",
      "r", "t", "h", ",", "1", "0", "0", CR, NL>>
TextWidget ==
    <<"N", "a", "m", "e", ",", "A", "r", "e", "a", ",", "T", "o", "t", "a",
      "l", NL, "W", "i", "d", "g", "e", "t", ",", "E", "a", "s", "t", ",",
      "4", "2">>

CsvTexts ==
    {JoinWith(<<h>> \o ls, NL) :
        h \in HeaderLines, ls \in SeqsUpTo(DataLines, MaxDataLines)}
      \cup {TextEmpty, TextBlank, TextCrLf, TextWidget}

\* The fetch of data.csv: it fails (network error, HTTP error, timeout) or
\* gives the text.
CsvOutcomes ==
    {[ok |-> FALSE, text |-> <<>>]} \cup {[ok |-> TRUE, text |-> t] : t \in CsvTexts}

Rate(code, v) == [k |-> code, v |-> v]

RateTables ==
    { <<>>,
      <<Rate("INR", JNum(1)), Rate("USD", JNum(2))>>,
      <<Rate("USD", JNum(3)), Rate("INR", JNum(1))>>,
      <<Rate("USD", JNum(2)), Rate("EUR", JNum(0))>>,
      <<Rate("INR", JNum(0 - 1)), Rate("XAU", JHuge), Rate("BAD", JText),
        Rate("NUL", JNull)>> }

\* The fetch of rates.json: it fails (.catch(() => null)), its body is no
\* JSON (ratesRes.json() rejects), or it gives a table.
RatesOutcomes ==
    {[kind |-> "fetchFailed", table |-> <<>>], [kind |-> "badJson", table |-> <<>>]}
      \cup {[kind |-> "table", table |-> t] : t \in RateTables}

\* rates = { INR: 1 }
DefaultRates == <<Rate("INR", JNum(1))>>

-----------------------------------------------------------------------------
(* The application *)

StatusOf(message, type) == [message |-> message, type |-> type]

NoStatus == StatusOf("", "")
Loading == StatusOf("Loading sales data...", "info")
NoRows == StatusOf("No rows found in CSV.", "warning")
Loaded == StatusOf("Loaded sales data.", "success")
Failed == StatusOf("Failed to load data", "danger")

ParseIdle ==
    /\ input = <<>>
    /\ output = <<>>
    /\ op = "none"

AppStart ==
    /\ pc = "start"
    /\ responses = [csv |-> "none", rates |-> "none"]
    /\ csvText = <<>>
    /\ parsed = EmptyParse
    /\ rawRows = <<>>
    /\ rates = <<>>
    /\ selectedRegion = S_all
    /\ selectedCurrency = "INR"
    /\ regionSelect = [options |-> <<>>, value |-> <<>>]
    /\ currencyPicker = [options |-> <<>>, value |-> ""]
    /\ status = NoStatus
    /\ statusLog = <<>>
    /\ view = BlankView
    /\ lastEvent = "none"

Init == ParseIdle /\ AppStart

(* init(): the fetches, parseCSV, coerceRow, the rates, the two builders,  *)
(* render and the final status; any exception ends in the catch block.     *)
(* p is init's parsed and rows its rawRows, each computed once.             *)
init ==
    /\ pc = "start"
    /\ \E csv \in CsvOutcomes, rt \in RatesOutcomes :
         /\ responses' = [csv |-> IF csv.ok THEN "ok" ELSE "failed", rates |-> rt.kind]
         /\ IF ~csv.ok
            THEN /\ pc' = "failed"
                 /\ status' = Failed
                 /\ statusLog' = <<Loading, Failed>>
                 /\ UNCHANGED <<csvText, parsed, rawRows, rates, selectedRegion,
                                selectedCurrency, regionSelect, currencyPicker, view>>
            ELSE \E p \in {parseCSV(csv.text)} :
                 \E rows \in {[n \in 1..Len(p.rows) |-> coerceRow(p.rows[n])]} :
                 LET log == IF rows = <<>> THEN <<Loading, NoRows>> ELSE <<Loading>>
                 IN  /\ csvText' = csv.text
                     /\ parsed' = p
                     /\ rawRows' = rows
                     /\ IF rt.kind = "badJson"
                        THEN /\ pc' = "failed"
                             /\ status' = Failed
                             /\ statusLog' = Append(log, Failed)
                             /\ UNCHANGED <<rates, selectedRegion, selectedCurrency,
                                            regionSelect, currencyPicker, view>>
                        ELSE LET table == IF rt.kind = "table" THEN rt.table
                                          ELSE DefaultRates
                                 code == defaultCurrency(table)
                             IN  /\ rates' = table
                                 /\ regionSelect' = [options |-> regionOptions(rows),
                                                     value |-> <<>>]
                                 /\ selectedRegion' = S_all
                                 /\ currencyPicker' = [options |-> currencyOptions(table),
                                                       value |-> code]
                                 /\ selectedCurrency' = code
                                 /\ view' = render(rows, S_all, code, table)
                                 /\ pc' = "loaded"
                                 /\ status' = Loaded
                                 /\ statusLog' = Append(log, Loaded)
    /\ lastEvent' = "init"
    /\ UNCHANGED parseVars

\* The change listener of #region-filter, after the user picks option v.
RegionChange ==
    /\ pc = "loaded"
    /\ \E n \in 1..Len(regionSelect.options) :
         LET v == regionSelect.options[n] IN
         /\ v # regionSelect.value
         /\ regionSelect' = [regionSelect EXCEPT !.value = v]
         /\ selectedRegion' = regionOfValue(v)
         /\ view' = render(rawRows, regionOfValue(v), selectedCurrency, rates)
    /\ lastEvent' = "region"
    /\ UNCHANGED <<pc, responses, csvText, parsed, rawRows, rates, selectedCurrency,
                   currencyPicker, status, statusLog>>
    /\ UNCHANGED parseVars

\* The change listener of #currency-picker, after the user picks option v.
CurrencyChange ==
    /\ pc = "loaded"
    /\ \E n \in 1..Len(currencyPicker.options) :
         LET v == currencyPicker.options[n] IN
         /\ v # currencyPicker.value
         /\ currencyPicker' = [currencyPicker EXCEPT !.value = v]
         /\ selectedCurrency' = v
         /\ view' = render(rawRows, selectedRegion, v, rates)
    /\ lastEvent' = "currency"
    /\ UNCHANGED <<pc, responses, csvText, parsed, rawRows, rates, selectedRegion,
                   regionSelect, status, statusLog>>
    /\ UNCHANGED parseVars

Next == init \/ RegionChange \/ CurrencyChange

Spec == Init /\ [][Next]_vars

-----------------------------------------------------------------------------
(* The parsing functions on their own *)

ParseInit ==
    /\ input \in ParseInputs
    /\ output = <<>>
    /\ op = "none"
    /\ AppStart

\* parseLine(line), for a line as split("\n") gives it
CallParseLine ==
    /\ op = "none"
    /\ IsLine(input)
    /\ output' = parseLine(input)
    /\ op' = "parseLine"
    /\ UNCHANGED input
    /\ UNCHANGED appVars

\* parseCSV(text)
CallParseCSV ==
    /\ op = "none"
    /\ output' = parseCSV(input)
    /\ op' = "parseCSV"
    /\ UNCHANGED input
    /\ UNCHANGED appVars

ParseNext == CallParseLine \/ CallParseCSV

SpecParse == ParseInit /\ [][ParseNext]_vars

-----------------------------------------------------------------------------
(* Properties *)

RECURSIVE SumOf(_, _)
\* the sum of f[n] over n in 1..k
SumOf(f, k) == IF k = 0 THEN 0 ELSE SumOf(f, k - 1) + f[k]

GroupKey(r) == IF r.product = <<>> THEN S_Unknown ELSE r.product

\* The records the region selection v of #region-filter stands for.
RecordsOfSelection(v) ==
    IF v = <<>> \/ v = S_all THEN rawRows
    ELSE SelectSeq(rawRows, LAMBDA r : r.region = v)

\* The sales of the records of rows that fall in the group name.
GroupSales(rows, name) ==
    SumOf([n \in 1..Len(rows) |-> IF GroupKey(rows[n]) = name THEN rows[n].sales ELSE 0],
          Len(rows))

\* The table shows one row per group of rows, each with the group's sales.
TableCovers(rows) ==
    /\ \A n \in 1..Len(rows) : \E m \in 1..Len(view.table) :
           view.table[m].name = GroupKey(rows[n])
    /\ \A m \in 1..Len(view.table) :
           /\ \E n \in 1..Len(rows) : GroupKey(rows[n]) = view.table[m].name
           /\ view.table[m].raw = GroupSales(rows, view.table[m].name)
           /\ \A m2 \in 1..Len(view.table) :
                  view.table[m2].name = view.table[m].name => m2 = m

\* C1: in every rendered state the unconverted total over the included
\* records equals the sum of the unconverted per-product subtotals shown,
\* every included record being counted in exactly one product group (a blank
\* product under "Unknown"); the same holds of the converted numbers.
C1_TotalIsSumOfSubtotals ==
    view.rendered =>
        /\ view.totalRaw = SumOf([m \in 1..Len(view.table) |-> view.table[m].raw],
                                 Len(view.table))
        /\ view.total = SumOf([m \in 1..Len(view.table) |-> view.table[m].shown],
                              Len(view.table))
        /\ TableCovers(RecordsOfSelection(selectedRegion))

\* C1 witness: after a region change, a filtered table in which one group
\* ("Unknown") sums several records.
C1_Witness ==
    /\ lastEvent = "region"
    /\ selectedRegion # S_all
    /\ \E m \in 1..Len(view.table) :
           /\ view.table[m].name = S_Unknown
           /\ \E a, b \in 1..Len(rawRows) :
                  /\ a # b
                  /\ rawRows[a].region = selectedRegion
                  /\ rawRows[b].region = selectedRegion
                  /\ rawRows[a].product = S_Unknown
                  /\ rawRows[b].product = S_Unknown
                  /\ rawRows[a].sales # 0
                  /\ rawRows[b].sales # 0

\* C2: after every region or currency change the total, the table and
\* data-region are those of the current selection: every record for "all" or
\* the empty option, otherwise exactly the records of the selected region;
\* data-region is the active region and the currency shown is the one picked.
C2_ViewFollowsSelection ==
    lastEvent \in {"region", "currency"} =>
        LET included == RecordsOfSelection(regionSelect.value) IN
        /\ view.rendered
        /\ selectedRegion = (IF regionSelect.value = <<>> THEN S_all ELSE regionSelect.value)
        /\ view.dataRegion = selectedRegion
        /\ view.currency = currencyPicker.value
        /\ view.totalRaw = SumSales(included)
        /\ view.total = SumSales(included) * view.rate
        /\ TableCovers(included)
        /\ \A m \in 1..Len(view.table) :
               view.table[m].shown = view.table[m].raw * view.rate

\* C2 witness: a currency change made while a region filter is active that
\* leaves some records out, with a rate other than 1.
C2_Witness ==
    /\ lastEvent = "currency"
    /\ regionSelect.value # <<>>
    /\ Len(RecordsOfSelection(regionSelect.value)) < Len(rawRows)
    /\ view.rate # 1
    /\ view.totalRaw # 0

\* The number of rows a parse result holds: the header row and the data rows.
RowCount(p) == (IF p.headers # <<>> THEN 1 ELSE 0) + Len(p.rows)

RECURSIVE UnquotedNewlines(_, _, _)
\* The newlines of the text that occur outside quoted mode, quoted mode
\* being entered and left by the quotes as in the field scanner.
UnquotedNewlines(cs, i, inQuotes) ==
    IF i > Len(cs) THEN 0
    ELSE IF cs[i] = QUOTE
         THEN IF inQuotes /\ i + 1 <= Len(cs) /\ cs[i + 1] = QUOTE
              THEN UnquotedNewlines(cs, i + 2, TRUE)
              ELSE UnquotedNewlines(cs, i + 1, ~inQuotes)
         ELSE (IF cs[i] = NL /\ ~inQuotes THEN 1 ELSE 0)
              + UnquotedNewlines(cs, i + 1, inQuotes)

\* C3: a newline met in quoted mode does not end the row, so the text gives
\* no more rows than it has lines ended outside quotes.
C3_QuotedNewlineKeepsRow ==
    op = "parseCSV" => RowCount(output) <= 1 + UnquotedNewlines(input, 1, FALSE)

EncodedLines == {EncodeQuoted(fs) : fs \in FieldLists}

\* C4: the field scanner decodes quoted fields: of a line of quoted fields
\* it gives back exactly the fields (commas kept inside, enclosing quotes
\* dropped, each doubled quote one quote), and the two example lines give
\* the cells the specification names.
C4_QuotedFieldsDecoded ==
    op = "parseLine" =>
        /\ input \in EncodedLines =>
               /\ output \in FieldLists
               /\ EncodeQuoted(output) = input
        /\ input = AcmeLine => StrEach(output) = <<"Acme, Inc.", "North", "100">>
        /\ input = SheSaidLine =>
               StrEach(output) = <<"She said \"hi\"", "East", "50">>

\* C4 witness: a line of two quoted fields, the first holding a comma and a
\* quote, has been scanned into those two fields.
C4_Witness ==
    /\ op = "parseLine"
    /\ input = EncodeQuoted(<< <<COMMA, QUOTE>>, <<"a">> >>)
    /\ output = << <<COMMA, QUOTE>>, <<"a">> >>

\* The data lines of the text: those after the header line.
DataLinesOf(text) ==
    LET lines == SplitLines(text)
        h == FirstNonBlank(lines, 1)
    IN  [n \in 1..(IF h >= Len(lines) THEN 0 ELSE Len(lines) - h) |-> lines[h + n]]

AllCellsBlank(line) ==
    \A c \in 1..Len(parseLine(line)) : trim(parseLine(line)[c]) = <<>>

\* C5: a data row whose cells all trim to the empty string gives no record,
\* and every other data row gives one.
C5_BlankRowsDropped ==
    responses.csv = "ok" =>
        Len(rawRows) = Len(SelectSeq(DataLinesOf(csvText), LAMBDA l : ~AllCellsBlank(l)))

\* C6: a text without any row makes the load fail: nothing is rendered and
\* the status is not success; a header row without data rows is no error and
\* gives total 0 and an empty table.  (Stated for loads whose rate table is
\* not empty.)
C6_EmptyInputFails ==
    responses.csv = "ok" /\ ~(responses.rates = "table" /\ rates = <<>>) =>
        /\ parsed.headers = <<>> =>
               /\ pc = "failed"
               /\ ~view.rendered
               /\ status.type # "success"
        /\ parsed.headers # <<>> /\ rawRows = <<>> /\ responses.rates # "badJson" =>
               /\ pc = "loaded"
               /\ view.totalRaw = 0
               /\ view.table = <<>>

\* The cell of the row under the alias: that of the last column whose header
\* is the alias when compared in lower case; <<>> when no header is.
AliasCell(row, alias) ==
    LET cols == {n \in 1..Len(row) : toLowerCase(row[n].k) = alias}
    IN  IF cols = {} THEN <<>>
        ELSE <<row[CHOOSE n \in cols : \A m \in cols : m <= n].v>>

RECURSIVE FirstPresent(_, _)
\* The cell of the first alias, in priority order, that is a header.
FirstPresent(row, aliases) ==
    IF aliases = <<>> THEN <<>>
    ELSE IF AliasCell(row, Head(aliases)) # <<>> THEN AliasCell(row, Head(aliases))
    ELSE FirstPresent(row, Tail(aliases))

RECURSIVE FirstNonEmpty(_, _)
\* The cell of the first alias, in priority order, that is a header and
\* holds a non-empty cell.
FirstNonEmpty(row, aliases) ==
    IF aliases = <<>> THEN <<>>
    ELSE IF AliasCell(row, Head(aliases)) \notin {<<>>, << <<>> >>}
         THEN AliasCell(row, Head(aliases))
    ELSE FirstNonEmpty(row, Tail(aliases))

NumberFromText(cs) ==
    LET f == parseFloat(StripNonNumeric(cs)) IN IF f.k = "fin" THEN f.n ELSE 0

S_Widget == <<"W", "i", "d", "g", "e", "t">>
S_East == <<"E", "a", "s", "t">>

HasGoodRate(table, code) ==
    \E n \in 1..Len(table) : table[n].k = code /\ table[n].v.t = "num" /\ table[n].v.n > 0

\* C8: in every render the multiplier is above 0: the table's rate when that
\* is finite and positive, 1 when the code is missing or its rate is not;
\* total and subtotals are multiplied by it and a bad rate fails no load.
C8_MultiplierPositive ==
    /\ view.rendered =>
           /\ view.rate > 0
           /\ HasGoodRate(rates, selectedCurrency) =>
                  \E n \in 1..Len(rates) :
                      rates[n].k = selectedCurrency /\ view.rate = rates[n].v.n
           /\ ~HasGoodRate(rates, selectedCurrency) => view.rate = 1
           /\ view.total = view.totalRaw * view.rate
           /\ \A m \in 1..Len(view.table) :
                  view.table[m].shown = view.table[m].raw * view.rate
    /\ responses.csv = "ok" /\ responses.rates = "table" => pc = "loaded"

\* C8 witness: a currency whose rate is negative has been picked and the
\* non-zero total is rendered with the multiplier 1.
C8_Witness ==
    /\ lastEvent = "currency"
    /\ \E n \in 1..Len(rates) :
           rates[n].k = selectedCurrency /\ rates[n].v.t = "num" /\ rates[n].v.n < 0
    /\ view.rate = 1
    /\ view.totalRaw # 0
    /\ view.total = view.totalRaw

\* C9: when the rates fetch fails or the fetched table is empty the load
\* completes on the default table {INR: 1}: the currency selected and shown
\* is INR and the multiplier is 1; and INR, when in the table, is the
\* currency selected first.  (Stated for loads with a total.)
C9_DefaultRatesUsed ==
    lastEvent = "init" /\ responses.csv = "ok" /\ view.totalRaw # 0 =>
        /\ responses.rates = "fetchFailed" \/ (responses.rates = "table" /\ rates = <<>>) =>
               /\ pc = "loaded"
               /\ view.rendered
               /\ selectedCurrency = "INR"
               /\ view.currency = "INR"
               /\ view.rate = 1
        /\ pc = "loaded" /\ HasKey(rates, "INR") => selectedCurrency = "INR"

\* C10: with the option of a region R of the data selected, the total and
\* the table cover exactly the records whose region is R, "All Regions"
\* being told from every region of the data, one named "all" included.
C10_RegionOptionSelectsItsRecords ==
    pc = "loaded" /\ regionSelect.value # <<>> =>
        LET included == SelectSeq(rawRows, LAMBDA r : r.region = regionSelect.value)
        IN  /\ view.totalRaw = SumSales(included)
            /\ TableCovers(included)
=============================================================================
